---- MODULE Spec2Model ----
(***************************************************************************)
(* Model of the generic repository of aisgo/ais-go-pkg (package            *)
(* repository): RepositoryImpl[T] over one table of a tenant-participating *)
(* entity type (columns id, tenant_id, dept_id, amount; the shape of       *)
(* tenantAggregateTestModel), the tenant scope engine of tenant_scope.go   *)
(* and the CRUD / query / aggregate / page operations as the source has    *)
(* them.  The table is a set of rows with unique primary keys; one action  *)
(* per repository method, each recording its outcome in `last`, and a      *)
(* Return action that hands the outcome back to the caller.  Spec is the   *)
(* repository of a tenant-participating type, GlobalSpec the same          *)
(* repository of a type whose TenantIgnored() is true, and TxSpec the      *)
(* transaction support (Execute and the snapshot of the page listing),     *)
(* statement by statement.  ValidatorSpec is the SQL fragment validator    *)
(* of validation.go and the option builders of interfaces.go, LockSpec the *)
(* distributed lock of cache/redis/lock.go (two Lock instances on one key, *)
(* with expiry and the renewal goroutine), and CacheSpec the descriptor    *)
(* cache of the validator (getFieldsInfo called by three goroutines).      *)
(***************************************************************************)
EXTENDS Integers, Sequences, FiniteSets, TLC

VARIABLES
    rows,           \* the committed rows of the table
    createdBy,      \* per primary key, the tenant of the identity that created the row
    last,           \* the call in progress: its arguments and its outcome
    tx,             \* the open transactions (*gorm.DB handles), innermost last
    tenantIgnored,  \* the entity type T implements TenantIgnorable and returns true
    redis,          \* the key "lock:resource" of the Redis server: its value and its time to live
    locks,          \* the Lock instances made by NewLock("resource", ...)
    typeCache,      \* the typeCache of the validator: its RWMutex and its map
    goroutines      \* the goroutines calling getFieldsInfo on the typeCache

repoVars == <<rows, createdBy, last, tx, tenantIgnored>>

lockVars == <<redis, locks>>

cacheVars == <<typeCache, goroutines>>

vars == <<rows, createdBy, last, tx, tenantIgnored, redis, locks, typeCache, goroutines>>

(* ---------------------------------------------------------------- bounds *)

NumIds == 2
MaxAmount == 1

Ids == 1..NumIds
Amounts == 0..MaxAmount
Tenants == {"T1", "T2"}
Depts == {"D1", "D2"}
NoDept == "nil"
DeptValues == Depts \cup {NoDept}

(* ---------------------------------------------------------------- errors *)

Err(code, cause) == [code |-> code, cause |-> cause]

NoErr == Err("OK", "none")

ErrUnauthenticated == Err("Unauthenticated", "none")

ErrInvalidArgument == Err("InvalidArgument", "none")

New(code) == Err(code, "none")

Wrap(code, cause) == Err(code, cause.code)

\* errors.Is(err, target): BizError.Is compares codes along the cause chain.
Is(err, code) == err.code = code \/ err.cause = code

(* ------------------------------------------------------- request context *)

\* The handle the repository was built on (RepositoryImpl.db); the handles of open
\* transactions are the positions 1.. of `tx`.
BaseHandle == 0

\* A context carries the tenant identity (TenantContext, ok) and, under ctxTxKey,
\* a transaction handle; BaseHandle stands for "no value under ctxTxKey".
\* TenantFromContext on a context without a TenantContext: (TenantContext{}, false).
NoTenantContext ==
    [ok |-> FALSE, TenantID |-> "zero", DeptID |-> NoDept, IsAdmin |-> FALSE,
     tx |-> BaseHandle]

TenantContext(t, d, admin) ==
    [ok |-> TRUE, TenantID |-> t, DeptID |-> d, IsAdmin |-> admin, tx |-> BaseHandle]

\* context.WithValue(ctx, ctxTxKey{}, tx)
WithTxValue(ctx, h) == [ctx EXCEPT !.tx = h]

WithTenantContext ==
    { TenantContext("T1", NoDept, TRUE), TenantContext("T1", "D1", TRUE),
      TenantContext("T1", "D1", FALSE),  TenantContext("T1", "D2", FALSE),
      TenantContext("T1", NoDept, FALSE), TenantContext("T2", NoDept, TRUE),
      TenantContext("T2", "D1", FALSE) }

Contexts == WithTenantContext \cup {NoTenantContext}

TenantFromContext(ctx) == ctx

(* ----------------------------------------------------------------- table *)

\* An in-memory entity *T, and a stored row, of the tenant-participating model.
Model(id, t, d, a) == [id |-> id, tenant_id |-> t, dept_id |-> d, amount |-> a]

Models == { Model(id, t, d, a) : id \in Ids, t \in Tenants, d \in DeptValues, a \in Amounts }

Has(tbl, id) == \E r \in tbl : r.id = id

RowOf(tbl, id) == CHOOSE r \in tbl : r.id = id

IdsOf(tbl) == { r.id : r \in tbl }

\* The query builder (*gorm.DB): the error sink, the accumulated WHERE conditions
\* and the handle (connection or transaction) its statements run on.
Cond(col, s, n) == [col |-> col, s |-> s, n |-> n]

\* r.db.WithContext(ctx): the repository's own handle, whatever ctx carries.
withContext(ctx) == [Error |-> NoErr, Where |-> <<>>, Handle |-> BaseHandle]

\* getDBFromContext(ctx, originalDB): the handle under ctxTxKey when there is one.
\* No repository method calls it.
getDBFromContext(ctx) == [Error |-> NoErr, Where |-> <<>>, Handle |-> ctx.tx]

AddError(db, e) == IF db.Error = NoErr THEN [db EXCEPT !.Error = e] ELSE db

Where(db, c) == [db EXCEPT !.Where = Append(@, c)]

Holds(r, c) ==
    CASE c.col = "tenant_id" -> r.tenant_id = c.s
      [] c.col = "dept_id"   -> r.dept_id = c.s
      [] c.col = "amount"    -> r.amount = c.n
      [] c.col = "id"        -> r.id = c.n
      [] OTHER               -> TRUE

Matching(tbl, db) == { r \in tbl : \A i \in DOMAIN db.Where : Holds(r, db.Where[i]) }

(* ---------------------------------------------------------- tenant scope *)

\* isTenantIgnored(r.newModelPtr()): the TenantIgnored capability of the type T.
isTenantIgnored == tenantIgnored

\* The schema has both columns: tenantFields returns (tenantField, deptField, nil).
hasDeptField == TRUE

applyTenantScope_IgnoreUnchecked(ctx, db) ==
    LET tc == TenantFromContext(ctx) IN
    IF ~tc.ok THEN AddError(db, ErrUnauthenticated)
    ELSE LET scoped == Where(db, Cond("tenant_id", tc.TenantID, 0)) IN
         IF ~tc.IsAdmin /\ hasDeptField
         THEN IF tc.DeptID = NoDept
              THEN AddError(scoped, New("Unauthenticated"))
              ELSE Where(scoped, Cond("dept_id", tc.DeptID, 0))
         ELSE scoped

applyTenantScope(ctx, db) ==
    LET tc == TenantFromContext(ctx) IN
    IF isTenantIgnored THEN db
    ELSE IF ~tc.ok THEN AddError(db, ErrUnauthenticated)
    ELSE LET scoped == Where(db, Cond("tenant_id", tc.TenantID, 0)) IN
         IF ~tc.IsAdmin /\ hasDeptField
         THEN IF tc.DeptID = NoDept
              THEN AddError(scoped, New("Unauthenticated"))
              ELSE Where(scoped, Cond("dept_id", tc.DeptID, 0))
         ELSE scoped

\* setTenantFields returns the error and the entity with its fields set.
setTenantFields(ctx, model) ==
    LET tc == TenantFromContext(ctx) IN
    IF isTenantIgnored THEN [err |-> NoErr, model |-> model]
    ELSE IF ~tc.ok THEN [err |-> ErrUnauthenticated, model |-> model]
    ELSE LET m1 == [model EXCEPT !.tenant_id = tc.TenantID] IN
         IF hasDeptField /\ ~tc.IsAdmin /\ tc.DeptID = NoDept
         THEN [err |-> New("Unauthenticated"), model |-> m1]
         ELSE IF hasDeptField /\ tc.DeptID # NoDept
              THEN [err |-> NoErr, model |-> [m1 EXCEPT !.dept_id = tc.DeptID]]
              ELSE [err |-> NoErr, model |-> m1]

(* ------------------------------------------------------- call bookkeeping *)

\* A caller-supplied WHERE fragment with its argument: "", "1=1" or "amount = ?".
Query(q, n) == [q |-> q, n |-> n]

NoQuery == Query("", 0)

\* A nil *T.
NilModel == [id |-> 0, tenant_id |-> "zero", dept_id |-> NoDept, amount |-> 0]

\* &QueryOption{}: the options of a query, of which the validated ones are kept.
QueryOption == [OrderBy |-> "", Select |-> <<>>, Joins |-> <<>>]

\* No call in progress.  Of a call, `last` keeps the arguments and the outcome:
\* id / ids / model / keys / query / argPage / argPageSize are what the caller
\* passed; err, found, groups, num / den, isNil, page and pageSize what it got back;
\* handle is the handle its statements ran on; texts are the strings given to a
\* validator or an option builder, opt the QueryOption the builder left.
Idle == [op |-> "none", ctx |-> NoTenantContext, id |-> 0, ids |-> {}, query |-> NoQuery,
         model |-> NilModel, keys |-> {}, argPage |-> 0, argPageSize |-> 0,
         err |-> NoErr, found |-> {}, groups |-> {}, num |-> 0, den |-> 1, isNil |-> FALSE,
         page |-> 0, pageSize |-> 0, handle |-> BaseHandle,
         texts |-> <<>>, opt |-> QueryOption]

Call(op, ctx, id, err) == [Idle EXCEPT !.op = op, !.ctx = ctx, !.id = id, !.err = err]

\* The outcome of a read: the fragment it was given, its error, rows and number.
Answer(op, ctx, query, err, found, num) ==
    [Idle EXCEPT !.op = op, !.ctx = ctx, !.query = query, !.err = err,
                 !.found = IF err = NoErr THEN found ELSE {},
                 !.num = IF err = NoErr THEN num ELSE 0]

\* The tenant of the identity a row was created under ("none": no identity in scope).
Creator(ctx) == IF ctx.ok THEN ctx.TenantID ELSE "none"

(* The lock instances, their options and the goroutines of the cache. *)

LockNames == {"A", "B"}

\* The value under a key that does not exist (redis.Nil).
Nil == "nil"

\* No key: nothing has been acquired.
NoKey == [value |-> Nil, ttl |-> 0]

\* Time is counted in ticker intervals of the renewal goroutine; with the
\* ExtendFactor of 0.5 a TTL is two of them.
LockTTL == 2

\* &Lock{} as NewLock leaves it: its value is its own uuid; no option has been
\* applied and no renewal goroutine runs. ctxDone is the context of the Acquire
\* in progress, parentDone the context the renewal goroutine was started from.
NewLock(name) ==
    [value |-> name, ttl |-> LockTTL, pc |-> "idle", op |-> "none", err |-> "nil",
     i |-> 0, RetryTimes |-> 0, AutoExtend |-> FALSE, ctxDone |-> FALSE,
     extending |-> FALSE, parentDone |-> FALSE, due |-> FALSE, lifetime |-> 0]

LockInit ==
    /\ redis = NoKey
    /\ locks = [l \in LockNames |-> NewLock(l)]

Goroutines == {"g1", "g2", "g3"}

Types == {"t1", "t2"}

\* No descriptor: the zero value of a map lookup.
NoInfo == <<>>

\* newTypeCache(): an unlocked RWMutex and an empty map; no type has been parsed.
newTypeCache ==
    [writer |-> "none", readers |-> {}, cache |-> [t \in Types |-> NoInfo],
     parsed |-> [t \in Types |-> 0]]

CacheInit ==
    /\ typeCache = newTypeCache
    /\ goroutines = [g \in Goroutines |-> [pc |-> "idle", t |-> "t1", info |-> NoInfo]]

\* NewRepository[T] over an empty table, T a tenant-participating entity type.
Init ==
    /\ rows = {}
    /\ createdBy = [i \in Ids |-> "none"]
    /\ last = Idle
    /\ tx = <<>>
    /\ tenantIgnored = FALSE
    /\ LockInit
    /\ CacheInit

(* ----------------------------------------------------------------- Create *)

\* INSERT of one entity: a duplicate primary key is a database error.
Insert(tbl, model) == IF Has(tbl, model.id) THEN tbl ELSE tbl \cup {model}

InsertErr(tbl, model) ==
    IF Has(tbl, model.id) THEN Wrap("Internal", New("AlreadyExists")) ELSE NoErr

Create ==
    /\ last.op = "none"
    /\ \E ctx \in Contexts, model \in Models \cup {NilModel} :
          IF model = NilModel
          THEN /\ last' = Call("Create", ctx, 0, New("InvalidArgument"))
               /\ UNCHANGED <<rows, createdBy>>
          ELSE /\ rows' = Insert(rows, model)
               /\ createdBy' = IF Has(rows, model.id) THEN createdBy
                               ELSE [createdBy EXCEPT ![model.id] = Creator(ctx)]
               /\ last' = [Call("Create", ctx, model.id, InsertErr(rows, model))
                              EXCEPT !.model = model]
    /\ UNCHANGED <<tx, tenantIgnored, lockVars, cacheVars>>

(* ------------------------------------------------------------ CreateBatch *)

DefaultBatchSize == 100

BatchHeads == { m \in Models : m.id = 1 /\ m.amount = 1 /\ m.dept_id = "D1" } \cup {NilModel}

BatchTails == { m \in Models : m.amount = 0 /\ m.dept_id = "D2" } \cup {NilModel}

Batches ==
    {<<>>} \cup { <<m>> : m \in Models \cup {NilModel} }
           \cup { <<a, b>> : a \in BatchHeads, b \in BatchTails }

BatchSizes == {0, 1}

validModels(models) == SelectSeq(models, LAMBDA m : m # NilModel)

\* Every element has a fresh primary key, also among the elements themselves.
AllFresh(tbl, ms) ==
    /\ \A i \in DOMAIN ms : ~Has(tbl, ms[i].id)
    /\ \A i, j \in DOMAIN ms : i # j => ms[i].id # ms[j].id

SeqSet(ms) == { ms[i] : i \in DOMAIN ms }

\* The number of INSERT statements CreateInBatches issues.
Statements(n, batchSize) ==
    LET size == IF batchSize <= 0 THEN DefaultBatchSize ELSE batchSize
    IN  (n + size - 1) \div size

CreateBatch ==
    /\ last.op = "none"
    /\ \E ctx \in Contexts, models \in Batches, batchSize \in BatchSizes :
          LET ms == validModels(models) IN
          IF Len(models) = 0
          THEN /\ last' = Call("CreateBatch", ctx, 0, New("InvalidArgument"))
               /\ UNCHANGED <<rows, createdBy>>
          ELSE IF Len(ms) = 0
          THEN /\ last' = Call("CreateBatch", ctx, 0, NoErr)
               /\ UNCHANGED <<rows, createdBy>>
          ELSE IF ~AllFresh(rows, ms)
          THEN \* CreateInBatches runs its statements in one transaction
               /\ last' = [Call("CreateBatch", ctx, 0, Wrap("Internal", New("AlreadyExists")))
                              EXCEPT !.ids = IdsOf(SeqSet(ms))]
               /\ UNCHANGED <<rows, createdBy>>
          ELSE /\ rows' = rows \cup SeqSet(ms)
               /\ createdBy' = [i \in Ids |->
                                   IF i \in IdsOf(SeqSet(ms)) THEN Creator(ctx) ELSE createdBy[i]]
               /\ last' = [Call("CreateBatch", ctx, 0, NoErr)
                              EXCEPT !.ids = IdsOf(SeqSet(ms)),
                                     !.num = Statements(Len(ms), batchSize)]
    /\ UNCHANGED <<tx, tenantIgnored, lockVars, cacheVars>>

(* ----------------------------------------------------------------- Update *)

\* INSERT ... ON CONFLICT DO UPDATE with UpdateAll: every non-key column is written.
Upsert(tbl, model) == { r \in tbl : r.id # model.id } \cup {model}

\* gorm's Save of one struct with a non-zero key: UPDATE of all columns, and an
\* upsert when the UPDATE affected no row.
Save(tbl, model) == Upsert(tbl, model)

\* RowsAffected == 0 after Save: only when the stored row already equals the entity,
\* on a database that counts changed rows (MySQL); the others count the row.
SaveErrs(tbl, model) == IF model \in tbl THEN {NoErr, New("NotFound")} ELSE {NoErr}

Update ==
    /\ last.op = "none"
    /\ \E ctx \in Contexts, model \in Models \cup {NilModel} :
          IF model = NilModel
          THEN /\ last' = Call("Update", ctx, 0, New("InvalidArgument"))
               /\ UNCHANGED <<rows, createdBy>>
          ELSE /\ rows' = Save(rows, model)
               /\ createdBy' = IF Has(rows, model.id) THEN createdBy
                               ELSE [createdBy EXCEPT ![model.id] = Creator(ctx)]
               /\ \E err \in SaveErrs(rows, model) :
                     last' = [Call("Update", ctx, model.id, err) EXCEPT !.model = model]
    /\ UNCHANGED <<tx, tenantIgnored, lockVars, cacheVars>>

(* ------------------------------------------------------------- UpdateByID *)

\* An update map: the keys present and the value given for each column key.
UpdateMap(keys, t, d, a) == [keys |-> keys, tenant_id |-> t, dept_id |-> d, amount |-> a]

UpdateKeySets ==
    { {}, {"amount"}, {"Amount"}, {"tenant_id"}, {"dept_id"}, {"id"}, {"bogus"},
      {"tenant_id", "amount"}, {"tenant_id", "dept_id"}, {"id", "bogus"} }

UpdateMaps ==
    { UpdateMap(k, t, d, a) : k \in UpdateKeySets, t \in Tenants, d \in Depts, a \in Amounts }

\* Values of absent keys do not exist: keep one representative of each map.
Updates ==
    { u \in UpdateMaps :
        /\ ("tenant_id" \notin u.keys => u.tenant_id = "T1")
        /\ ("dept_id" \notin u.keys => u.dept_id = "D1")
        /\ ({"amount", "Amount"} \cap u.keys = {} => u.amount = 0) }

\* schema.FieldsByDBName, schema.FieldsByName and the flags filterUpdates reads.
FieldsByDBName == {"id", "tenant_id", "dept_id", "amount"}

FieldsByName == {"ID", "TenantID", "DeptID", "Amount"}

DBName(k) ==
    CASE k = "ID" -> "id" [] k = "TenantID" -> "tenant_id"
      [] k = "DeptID" -> "dept_id" [] k = "Amount" -> "amount" [] OTHER -> k

PrimaryKey(col) == col = "id"

\* The set of columns the filtered map writes.
filterUpdates(updates) ==
    { DBName(k) : k \in { k \in updates.keys :
                            /\ k \in FieldsByDBName \cup FieldsByName
                            /\ ~PrimaryKey(DBName(k)) } }

\* UPDATE ... SET the filtered columns.
Assign(r, cols, updates) ==
    [r EXCEPT !.tenant_id = IF "tenant_id" \in cols THEN updates.tenant_id ELSE @,
              !.dept_id   = IF "dept_id" \in cols THEN updates.dept_id ELSE @,
              !.amount    = IF "amount" \in cols THEN updates.amount ELSE @]

UpdateByID ==
    /\ last.op = "none"
    /\ \E ctx \in Contexts, id \in Ids, updates \in Updates :
          LET filteredUpdates == filterUpdates(updates)
              db == Where(withContext(ctx), Cond("id", "", id))
              hit == Matching(rows, db)
              result(err) == [Call("UpdateByID", ctx, id, err) EXCEPT !.keys = updates.keys]
          IN
          IF updates.keys = {} \/ filteredUpdates = {}
          THEN /\ last' = result(New("InvalidArgument"))
               /\ UNCHANGED <<rows, createdBy>>
          ELSE IF hit = {}
          THEN /\ last' = result(New("NotFound"))
               /\ UNCHANGED <<rows, createdBy>>
          ELSE /\ rows' = (rows \ hit) \cup { Assign(r, filteredUpdates, updates) : r \in hit }
               /\ last' = result(NoErr)
               /\ UNCHANGED createdBy
    /\ UNCHANGED <<tx, tenantIgnored, lockVars, cacheVars>>

(* ------------------------------------------------------------ UpdateBatch *)

RECURSIVE UpsertAll(_, _)
UpsertAll(tbl, ms) ==
    IF Len(ms) = 0 THEN tbl ELSE UpsertAll(Upsert(tbl, Head(ms)), Tail(ms))

UpdateBatch ==
    /\ last.op = "none"
    /\ \E ctx \in Contexts, models \in Batches :
          LET ms == validModels(models) IN
          IF Len(models) = 0
          THEN /\ last' = Call("UpdateBatch", ctx, 0, New("InvalidArgument"))
               /\ UNCHANGED <<rows, createdBy>>
          ELSE IF Len(ms) = 0
          THEN /\ last' = Call("UpdateBatch", ctx, 0, NoErr)
               /\ UNCHANGED <<rows, createdBy>>
          ELSE /\ rows' = UpsertAll(rows, ms)
               /\ createdBy' = [i \in Ids |->
                                   IF i \in IdsOf(SeqSet(ms)) /\ ~Has(rows, i)
                                   THEN Creator(ctx) ELSE createdBy[i]]
               /\ last' = [Call("UpdateBatch", ctx, 0, NoErr) EXCEPT !.ids = IdsOf(SeqSet(ms))]
    /\ UNCHANGED <<tx, tenantIgnored, lockVars, cacheVars>>

(* ----------------------------------------------------------------- Delete *)

\* DELETE ... WHERE of the builder; the model has no soft-delete column.
DeleteWhere(db) ==
    LET hit == Matching(rows, db) IN
    /\ rows' = rows \ hit
    /\ createdBy' = [i \in Ids |-> IF i \in IdsOf(hit) THEN "none" ELSE createdBy[i]]

RowsAffectedErr(db) == IF Matching(rows, db) = {} THEN New("NotFound") ELSE NoErr

Delete ==
    /\ last.op = "none"
    /\ \E ctx \in Contexts, id \in Ids :
          LET db == Where(withContext(ctx), Cond("id", "", id)) IN
          /\ DeleteWhere(db)
          /\ last' = Call("Delete", ctx, id, RowsAffectedErr(db))
    /\ UNCHANGED <<tx, tenantIgnored, lockVars, cacheVars>>

HardDelete ==
    /\ last.op = "none"
    /\ \E ctx \in Contexts, id \in Ids :
          LET db == Where(withContext(ctx), Cond("id", "", id)) IN
          /\ DeleteWhere(db)
          /\ last' = Call("HardDelete", ctx, id, RowsAffectedErr(db))
    /\ UNCHANGED <<tx, tenantIgnored, lockVars, cacheVars>>

DeleteBatch ==
    /\ last.op = "none"
    /\ \E ctx \in Contexts, ids \in SUBSET Ids :
          IF ids = {}
          THEN /\ last' = Call("DeleteBatch", ctx, 0, New("InvalidArgument"))
               /\ UNCHANGED <<rows, createdBy>>
          ELSE /\ rows' = { r \in rows : r.id \notin ids }
               /\ createdBy' = [i \in Ids |-> IF i \in ids THEN "none" ELSE createdBy[i]]
               /\ last' = [Call("DeleteBatch", ctx, 0, NoErr) EXCEPT !.ids = ids]
    /\ UNCHANGED <<tx, tenantIgnored, lockVars, cacheVars>>

(* ---------------------------------------------------------------- queries *)

Queries == {Query("1=1", 0)} \cup { Query("amount = ?", a) : a \in Amounts }

\* db.Where(query, args...) of a caller's fragment.
WhereQuery(db, query) ==
    IF query.q = "amount = ?" THEN Where(db, Cond("amount", "", query.n)) ELSE db

\* buildQuery with no options: Select, Joins, Order and Preload choose no rows.
buildQuery(ctx) == withContext(ctx)

\* First: ORDER BY the primary key LIMIT 1.
First(hit) == { r \in hit : \A x \in hit : r.id <= x.id }

FindByID ==
    /\ last.op = "none"
    /\ \E ctx \in Contexts, id \in Ids :
          LET hit == Matching(rows, Where(buildQuery(ctx), Cond("id", "", id))) IN
          last' = [Answer("FindByID", ctx, NoQuery,
                          IF hit = {} THEN New("NotFound") ELSE NoErr, hit, 0)
                      EXCEPT !.id = id]
    /\ UNCHANGED <<rows, createdBy, tx, tenantIgnored, lockVars, cacheVars>>

FindByIDs ==
    /\ last.op = "none"
    /\ \E ctx \in Contexts, ids \in SUBSET Ids :
          LET hit == IF ids = {} THEN {}
                     ELSE { r \in Matching(rows, buildQuery(ctx)) : r.id \in ids } IN
          last' = [Answer("FindByIDs", ctx, NoQuery, NoErr, hit, 0) EXCEPT !.ids = ids]
    /\ UNCHANGED <<rows, createdBy, tx, tenantIgnored, lockVars, cacheVars>>

FindOne ==
    /\ last.op = "none"
    /\ \E ctx \in Contexts, query \in Queries :
          LET hit == Matching(rows, WhereQuery(buildQuery(ctx), query)) IN
          last' = Answer("FindOne", ctx, query,
                         IF hit = {} THEN New("NotFound") ELSE NoErr, First(hit), 0)
    /\ UNCHANGED <<rows, createdBy, tx, tenantIgnored, lockVars, cacheVars>>

FindByQuery ==
    /\ last.op = "none"
    /\ \E ctx \in Contexts, query \in Queries :
          LET hit == Matching(rows, WhereQuery(buildQuery(ctx), query)) IN
          last' = Answer("FindByQuery", ctx, query, NoErr, hit, 0)
    /\ UNCHANGED <<rows, createdBy, tx, tenantIgnored, lockVars, cacheVars>>

\* The rows Count counts.
CountRows(ctx, query) == Matching(rows, WhereQuery(withContext(ctx), query))

Count ==
    /\ last.op = "none"
    /\ \E ctx \in Contexts, query \in Queries :
          last' = Answer("Count", ctx, query, NoErr, CountRows(ctx, query),
                         Cardinality(CountRows(ctx, query)))
    /\ UNCHANGED <<rows, createdBy, tx, tenantIgnored, lockVars, cacheVars>>

Exists ==
    /\ last.op = "none"
    /\ \E ctx \in Contexts, query \in Queries :
          last' = Answer("Exists", ctx, query, NoErr, CountRows(ctx, query),
                         IF Cardinality(CountRows(ctx, query)) > 0 THEN 1 ELSE 0)
    /\ UNCHANGED <<rows, createdBy, tx, tenantIgnored, lockVars, cacheVars>>

(* ------------------------------------------------------------------- page *)

MaxPageSize == 1000

DefaultPageSize == 10

PageInputs == {0, 1, 2}

PageSizeInputs == {-1, 0, 1, MaxPageSize, MaxPageSize + 1}

PageQueries == {NoQuery, Query("amount = ?", 1)}

ClampPage(page) == IF page < 1 THEN 1 ELSE page

ClampPageSize_Min1(pageSize) ==
    IF pageSize < 1 THEN 1
    ELSE IF pageSize > MaxPageSize THEN MaxPageSize ELSE pageSize

ClampPageSize(pageSize) ==
    IF pageSize < 1 THEN DefaultPageSize
    ELSE IF pageSize > MaxPageSize THEN MaxPageSize ELSE pageSize

\* Offset/Limit over the rows in primary-key order.
PageOf(hit, page, pageSize) ==
    LET offset == (page - 1) * pageSize
        rank(r) == Cardinality({ x \in hit : x.id <= r.id })
    IN  { r \in hit : rank(r) > offset /\ rank(r) <= offset + pageSize }

FindPage ==
    /\ last.op = "none"
    /\ \E ctx \in Contexts, page \in PageInputs, pageSize \in PageSizeInputs,
          query \in PageQueries :
          LET p == ClampPage(page)
              ps == ClampPageSize(pageSize)
              hit == Matching(rows, WhereQuery(buildQuery(ctx), query))
          IN  last' = [Answer("FindPage", ctx, query, NoErr, PageOf(hit, p, ps),
                              Cardinality(hit))
                          EXCEPT !.argPage = page, !.argPageSize = pageSize,
                                 !.page = p, !.pageSize = ps]
    /\ UNCHANGED <<rows, createdBy, tx, tenantIgnored, lockVars, cacheVars>>

\* The condition structs given to FindPageByModel: nil, or a struct whose non-zero
\* fields are the conditions.
PageModels == {NilModel, [NilModel EXCEPT !.amount = 1], [NilModel EXCEPT !.tenant_id = "T1"]}

\* db.Where(model) of a struct: one equality per non-zero field.
WhereModel(db, model) ==
    LET byTenant == IF model.tenant_id # "zero"
                    THEN Where(db, Cond("tenant_id", model.tenant_id, 0)) ELSE db
        byDept   == IF model.dept_id # NoDept
                    THEN Where(byTenant, Cond("dept_id", model.dept_id, 0)) ELSE byTenant
    IN  IF model.amount # 0 THEN Where(byDept, Cond("amount", "", model.amount)) ELSE byDept

FindPageByModel ==
    /\ last.op = "none"
    /\ \E ctx \in Contexts, page \in PageInputs, pageSize \in PageSizeInputs,
          model \in PageModels :
          LET p == ClampPage(page)
              ps == ClampPageSize(pageSize)
              db == buildQuery(ctx)
              hit == Matching(rows, IF model # NilModel THEN WhereModel(db, model) ELSE db)
          IN  last' = [Answer("FindPageByModel", ctx, NoQuery, NoErr, PageOf(hit, p, ps),
                              Cardinality(hit))
                          EXCEPT !.model = model, !.argPage = page, !.argPageSize = pageSize,
                                 !.page = p, !.pageSize = ps]
    /\ UNCHANGED <<rows, createdBy, tx, tenantIgnored, lockVars, cacheVars>>

(* ------------------------------------------------------------- aggregates *)

Lower == {"a", "d", "e", "i", "m", "n", "o", "t", "u"}

Digit == {"0", "1"}

\* Column names as the aggregate methods receive them, character by character.
ColAmount == <<"a", "m", "o", "u", "n", "t">>

ColTenantID == <<"t", "e", "n", "a", "n", "t", "_", "i", "d">>

ColQualified == <<"t", ".", "a", "m", "o", "u", "n", "t">>

ColEmpty == <<>>

ColInjection == <<"i", "d", ";", "-", "-">>

ColDigitFirst == <<"1", "a">>

BadColumns == {ColQualified, ColEmpty, ColInjection, ColDigitFirst}

\* columnRegex ^[a-zA-Z_][a-zA-Z0-9_]*$
columnRegex(column) ==
    /\ Len(column) > 0
    /\ column[1] \in Lower \cup {"_"}
    /\ \A i \in 2..Len(column) : column[i] \in Lower \cup Digit \cup {"_"}

validateColumn(column) ==
    IF Len(column) = 0 THEN New("InvalidArgument")
    ELSE IF \E i \in DOMAIN column : column[i] = "." THEN New("InvalidArgument")
    ELSE IF ~columnRegex(column) THEN New("InvalidArgument")
    ELSE NoErr

AggQueries == {NoQuery} \cup Queries

AggInputs ==
    { <<ColAmount, q>> : q \in AggQueries } \cup { <<c, NoQuery>> : c \in BadColumns }

GroupInputs ==
    { <<ColTenantID, q>> : q \in {NoQuery, Query("amount = ?", 1)} }
        \cup { <<c, NoQuery>> : c \in BadColumns }

RECURSIVE SumAmount(_)
SumAmount(hit) ==
    IF hit = {} THEN 0
    ELSE LET r == CHOOSE x \in hit : TRUE IN r.amount + SumAmount(hit \ {r})

MaxAmountOf(hit) == CHOOSE a \in { r.amount : r \in hit } : \A r \in hit : r.amount <= a

MinAmountOf(hit) == CHOOSE a \in { r.amount : r \in hit } : \A r \in hit : a <= r.amount

\* The builder of Sum, Avg, Max, Min and CountByGroup: tenant scope, then the fragment.
ScopedQuery(ctx, query) ==
    LET db == applyTenantScope(ctx, withContext(ctx)) IN
    IF query.q # "" THEN WhereQuery(db, query) ELSE db

\* The builder of the WithCondition variants: buildQuery, then the condition.
ConditionQuery(ctx, where) ==
    LET db == buildQuery(ctx) IN
    IF where # NoQuery THEN WhereQuery(db, where) ELSE db

\* The outcome of one aggregate over the builder db: "SUM", "AVG", "MAX" or "MIN".
Aggregate(op, fn, ctx, column, query, db) ==
    LET hit == Matching(rows, db)
        n == Cardinality(hit)
    IN
    IF validateColumn(column) # NoErr
    THEN Answer(op, ctx, query, validateColumn(column), {}, 0)
    ELSE IF db.Error # NoErr
    THEN Answer(op, ctx, query, Wrap("Internal", db.Error), {}, 0)
    ELSE CASE fn = "SUM" -> Answer(op, ctx, query, NoErr, hit, SumAmount(hit))
           [] fn = "AVG" -> [Answer(op, ctx, query, NoErr, hit, SumAmount(hit))
                                EXCEPT !.den = IF n = 0 THEN 1 ELSE n]
           [] fn = "MAX" -> [Answer(op, ctx, query, NoErr, hit,
                                    IF n = 0 THEN 0 ELSE MaxAmountOf(hit))
                                EXCEPT !.isNil = (n = 0)]
           [] fn = "MIN" -> [Answer(op, ctx, query, NoErr, hit,
                                    IF n = 0 THEN 0 ELSE MinAmountOf(hit))
                                EXCEPT !.isNil = (n = 0)]

Sum ==
    /\ last.op = "none"
    /\ \E ctx \in Contexts, in \in AggInputs :
          last' = Aggregate("Sum", "SUM", ctx, in[1], in[2], ScopedQuery(ctx, in[2]))
    /\ UNCHANGED <<rows, createdBy, tx, tenantIgnored, lockVars, cacheVars>>

Avg ==
    /\ last.op = "none"
    /\ \E ctx \in Contexts, in \in AggInputs :
          last' = Aggregate("Avg", "AVG", ctx, in[1], in[2], ScopedQuery(ctx, in[2]))
    /\ UNCHANGED <<rows, createdBy, tx, tenantIgnored, lockVars, cacheVars>>

Max ==
    /\ last.op = "none"
    /\ \E ctx \in Contexts, in \in AggInputs :
          last' = Aggregate("Max", "MAX", ctx, in[1], in[2], ScopedQuery(ctx, in[2]))
    /\ UNCHANGED <<rows, createdBy, tx, tenantIgnored, lockVars, cacheVars>>

Min ==
    /\ last.op = "none"
    /\ \E ctx \in Contexts, in \in AggInputs :
          last' = Aggregate("Min", "MIN", ctx, in[1], in[2], ScopedQuery(ctx, in[2]))
    /\ UNCHANGED <<rows, createdBy, tx, tenantIgnored, lockVars, cacheVars>>

\* map[string]int64 of the group column tenant_id, as a set of (group, count) pairs.
GroupCounts(hit) ==
    { [group |-> t, count |-> Cardinality({ r \in hit : r.tenant_id = t })] :
        t \in { r.tenant_id : r \in hit } }

CountByGroup ==
    /\ last.op = "none"
    /\ \E ctx \in Contexts, in \in GroupInputs :
          LET db == ScopedQuery(ctx, in[2])
              hit == Matching(rows, db)
          IN
          last' = IF validateColumn(in[1]) # NoErr
                  THEN Answer("CountByGroup", ctx, in[2], validateColumn(in[1]), {}, 0)
                  ELSE IF db.Error # NoErr
                  THEN Answer("CountByGroup", ctx, in[2], Wrap("Internal", db.Error), {}, 0)
                  ELSE [Answer("CountByGroup", ctx, in[2], NoErr, hit, 0)
                           EXCEPT !.groups = GroupCounts(hit)]
    /\ UNCHANGED <<rows, createdBy, tx, tenantIgnored, lockVars, cacheVars>>

SumWithCondition ==
    /\ last.op = "none"
    /\ \E ctx \in Contexts, in \in AggInputs :
          last' = Aggregate("SumWithCondition", "SUM", ctx, in[1], in[2],
                            ConditionQuery(ctx, in[2]))
    /\ UNCHANGED <<rows, createdBy, tx, tenantIgnored, lockVars, cacheVars>>

AvgWithCondition ==
    /\ last.op = "none"
    /\ \E ctx \in Contexts, in \in AggInputs :
          last' = Aggregate("AvgWithCondition", "AVG", ctx, in[1], in[2],
                            ConditionQuery(ctx, in[2]))
    /\ UNCHANGED <<rows, createdBy, tx, tenantIgnored, lockVars, cacheVars>>

MaxWithCondition ==
    /\ last.op = "none"
    /\ \E ctx \in Contexts, in \in AggInputs :
          last' = Aggregate("MaxWithCondition", "MAX", ctx, in[1], in[2],
                            ConditionQuery(ctx, in[2]))
    /\ UNCHANGED <<rows, createdBy, tx, tenantIgnored, lockVars, cacheVars>>

MinWithCondition ==
    /\ last.op = "none"
    /\ \E ctx \in Contexts, in \in AggInputs :
          last' = Aggregate("MinWithCondition", "MIN", ctx, in[1], in[2],
                            ConditionQuery(ctx, in[2]))
    /\ UNCHANGED <<rows, createdBy, tx, tenantIgnored, lockVars, cacheVars>>

(* ------------------------------------------------------------ the program *)

\* The call returns: its outcome is handed to the caller (never between the two
\* statements of a page listing).
Return ==
    /\ last.op \notin {"none", "findPageWithDB"}
    /\ last' = Idle
    /\ UNCHANGED <<rows, createdBy, tx, tenantIgnored, lockVars, cacheVars>>

Next ==
    \/ Create \/ CreateBatch \/ Update \/ UpdateByID \/ UpdateBatch
    \/ Delete \/ DeleteBatch \/ HardDelete
    \/ FindByID \/ FindByIDs \/ FindOne \/ FindByQuery \/ Count \/ Exists \/ FindPage
    \/ FindPageByModel
    \/ Sum \/ Avg \/ Max \/ Min \/ CountByGroup
    \/ SumWithCondition \/ AvgWithCondition \/ MaxWithCondition \/ MinWithCondition
    \/ Return

Spec == Init /\ [][Next]_vars

\* NewRepository[T] over an empty table, T a type whose TenantIgnored() returns true.
GlobalInit ==
    /\ rows = {}
    /\ createdBy = [i \in Ids |-> "none"]
    /\ last = Idle
    /\ tx = <<>>
    /\ tenantIgnored = TRUE
    /\ LockInit
    /\ CacheInit

GlobalSpec == GlobalInit /\ [][Next]_vars

(* ----------------------------------------------------------- transactions *)

\* The deepest nesting of Execute blocks explored.
MaxDepth == 2

\* The entities written inside Execute blocks, and the identity of the caller.
TxModels == { Model(id, "T1", "D1", 0) : id \in Ids }

TxIdentity == TenantContext("T1", "D1", FALSE)

\* The rows the statements of a handle work on.
TableOf(h) == IF h = BaseHandle THEN rows ELSE tx[h].table

\* db.Transaction(fn) on handle h: BEGIN when h is a plain connection, SAVEPOINT
\* when h is itself a transaction.  The record keeps the scope the caller passed,
\* the rows at BEGIN, the working rows, and `scoped`: the rows as the calls made
\* through the child scope so far leave them.
Begin(h, ctx, op) ==
    [parent |-> h, ctx |-> ctx, op |-> op, begin |-> TableOf(h), table |-> TableOf(h),
     scoped |-> IF tx = <<>> THEN rows ELSE tx[Len(tx)].scoped]

\* COMMIT / RELEASE SAVEPOINT: the inserts and deletes of t applied to tbl.
Merge(tbl, t) ==
    LET added == t.table \ t.begin
        removed == t.begin \ t.table
    IN  { r \in tbl : r.id \notin IdsOf(added) \cup IdsOf(removed) } \cup added

\* The Execute block whose fn is running, if any.
InBlock == tx # <<>> /\ tx[Len(tx)].op = "Execute"

\* ctxWithTx of the innermost block: context.WithValue(ctx, ctxTxKey{}, tx).
ctxWithTx == WithTxValue(tx[Len(tx)].ctx, Len(tx))

\* The working rows of the handles after a statement on handle h turned tbl into
\* tbl2, and after the child scope's view moved to scoped2.
TxAfter(h, tbl2, scoped2) ==
    [i \in DOMAIN tx |->
        [tx[i] EXCEPT !.table = IF i = h THEN tbl2 ELSE @,
                      !.scoped = IF i = Len(tx) THEN scoped2 ELSE @]]

Execute ==
    /\ last.op = "none"
    /\ Len(tx) < MaxDepth
    /\ tx # <<>> => InBlock
    /\ LET ctx == IF tx = <<>> THEN TxIdentity ELSE ctxWithTx
           db == withContext(ctx)
       IN  tx' = Append(tx, Begin(db.Handle, ctx, "Execute"))
    /\ UNCHANGED <<rows, createdBy, last, tenantIgnored, lockVars, cacheVars>>

\* fn calls Create with the child scope.
fnCreate ==
    /\ last.op = "none"
    /\ InBlock
    /\ \E model \in TxModels :
          LET ctx == ctxWithTx
              h == withContext(ctx).Handle
              tbl == TableOf(h)
          IN  /\ rows' = IF h = BaseHandle THEN Insert(rows, model) ELSE rows
              /\ tx' = TxAfter(h, Insert(tbl, model), Insert(tx[Len(tx)].scoped, model))
              /\ createdBy' = IF h = BaseHandle /\ ~Has(rows, model.id)
                              THEN [createdBy EXCEPT ![model.id] = Creator(ctx)]
                              ELSE createdBy
              /\ last' = [Call("Create", ctx, model.id, InsertErr(tbl, model))
                             EXCEPT !.model = model, !.handle = h]
    /\ UNCHANGED <<tenantIgnored, lockVars, cacheVars>>

\* fn calls Delete with the child scope.
fnDelete ==
    /\ last.op = "none"
    /\ InBlock
    /\ \E id \in Ids :
          LET ctx == ctxWithTx
              db == Where(withContext(ctx), Cond("id", "", id))
              h == db.Handle
              tbl == TableOf(h)
              hit == Matching(tbl, db)
          IN  /\ rows' = IF h = BaseHandle THEN rows \ hit ELSE rows
              /\ tx' = TxAfter(h, tbl \ hit,
                               { r \in tx[Len(tx)].scoped : r.id # id })
              /\ createdBy' = IF h = BaseHandle /\ hit # {}
                              THEN [createdBy EXCEPT ![id] = "none"] ELSE createdBy
              /\ last' = [Call("Delete", ctx, id,
                               IF hit = {} THEN New("NotFound") ELSE NoErr)
                             EXCEPT !.handle = h]
    /\ UNCHANGED <<tenantIgnored, lockVars, cacheVars>>

\* FindByID on whatever handle the scope resolves to.
FindByIDOn(ctx, id) ==
    LET db == Where(buildQuery(ctx), Cond("id", "", id))
        hit == Matching(TableOf(db.Handle), db)
    IN  [Answer("FindByID", ctx, NoQuery,
                IF hit = {} THEN New("NotFound") ELSE NoErr, hit, 0)
            EXCEPT !.id = id, !.handle = db.Handle]

\* fn calls FindByID with the child scope.
fnFindByID ==
    /\ last.op = "none"
    /\ InBlock
    /\ \E id \in Ids : last' = FindByIDOn(ctxWithTx, id)
    /\ UNCHANGED <<rows, createdBy, tx, tenantIgnored, lockVars, cacheVars>>

\* Another request calls FindByID with a scope that carries no transaction while
\* the block is open.
FindByIDOutside ==
    /\ last.op = "none"
    /\ InBlock
    /\ \E id \in Ids : last' = FindByIDOn(TxIdentity, id)
    /\ UNCHANGED <<rows, createdBy, tx, tenantIgnored, lockVars, cacheVars>>

\* fn returned nil: db.Transaction commits (releases the savepoint) and Execute
\* returns nil.
ExecuteCommit ==
    /\ last.op = "none"
    /\ InBlock
    /\ LET top == Len(tx)
           t == tx[top]
       IN  /\ rows' = IF t.parent = BaseHandle THEN Merge(rows, t) ELSE rows
           /\ tx' = [i \in 1..(top - 1) |->
                        [tx[i] EXCEPT !.table = IF i = t.parent THEN Merge(@, t) ELSE @,
                                      !.scoped = IF i = top - 1 THEN t.scoped ELSE @]]
           /\ last' = Call("Execute", t.ctx, 0, NoErr)
    /\ UNCHANGED <<createdBy, tenantIgnored, lockVars, cacheVars>>

\* The error fn returns, and a panic raised in fn.
FnError == New("Internal")

Panic == Err("panic", "none")

\* fn returned an error or panicked: db.Transaction rolls back (to the savepoint)
\* and hands the error back, or re-raises the panic.
ExecuteRollback ==
    /\ last.op = "none"
    /\ InBlock
    /\ \E err \in {FnError, Panic} :
          /\ tx' = SubSeq(tx, 1, Len(tx) - 1)
          /\ last' = Call("Execute", tx[Len(tx)].ctx, 0, err)
    /\ UNCHANGED <<rows, createdBy, tenantIgnored, lockVars, cacheVars>>

\* The page requests explored step by step.
TxPages == {1, 2}

TxPageSizes == {1, DefaultPageSize}

\* findPageWithSnapshot up to the COUNT of findPageWithDB: a REPEATABLE READ
\* transaction is opened, its handle is put in the context, buildQuery builds the
\* query from that context, and the total is counted on the query's handle.
findPageWithSnapshot ==
    /\ last.op = "none"
    /\ tx = <<>>
    /\ \E page \in TxPages, pageSize \in TxPageSizes :
          LET ctx == TxIdentity
              opened == Begin(withContext(ctx).Handle, ctx, "FindPage")
              query == buildQuery(WithTxValue(ctx, 1))
              total == Cardinality(Matching(rows, query))
          IN  /\ tx' = <<opened>>
              /\ last' = [Idle EXCEPT !.op = "findPageWithDB", !.ctx = WithTxValue(ctx, 1),
                                      !.num = total, !.handle = query.Handle,
                                      !.argPage = page, !.argPageSize = pageSize,
                                      !.page = ClampPage(page),
                                      !.pageSize = ClampPageSize(pageSize)]
    /\ UNCHANGED <<rows, createdBy, tenantIgnored, lockVars, cacheVars>>

\* The rest of findPageWithDB: the slice is read on the query's handle, then the
\* transaction commits and FindPage returns.
findPageWithDB ==
    /\ last.op = "findPageWithDB"
    /\ LET query == [buildQuery(last.ctx) EXCEPT !.Handle = last.handle]
           hit == Matching(TableOf(query.Handle), query)
       IN  last' = [last EXCEPT !.op = "FindPage",
                                !.found = PageOf(hit, last.page, last.pageSize)]
    /\ tx' = <<>>
    /\ UNCHANGED <<rows, createdBy, tenantIgnored, lockVars, cacheVars>>

\* Between the two statements of a page listing another request creates a row on
\* its own connection.
ConcurrentCreate ==
    /\ last.op = "findPageWithDB"
    /\ \E model \in TxModels :
          /\ ~Has(rows, model.id)
          /\ rows' = Insert(rows, model)
          /\ createdBy' = [createdBy EXCEPT ![model.id] = Creator(TxIdentity)]
    /\ UNCHANGED <<last, tx, tenantIgnored, lockVars, cacheVars>>

\* ... or deletes one.
ConcurrentDelete ==
    /\ last.op = "findPageWithDB"
    /\ \E r \in rows :
          /\ rows' = rows \ {r}
          /\ createdBy' = [createdBy EXCEPT ![r.id] = "none"]
    /\ UNCHANGED <<last, tx, tenantIgnored, lockVars, cacheVars>>

TxNext ==
    \/ Execute \/ fnCreate \/ fnDelete \/ fnFindByID \/ FindByIDOutside
    \/ ExecuteCommit \/ ExecuteRollback
    \/ findPageWithSnapshot \/ findPageWithDB \/ ConcurrentCreate \/ ConcurrentDelete
    \/ Return

TxSpec == Init /\ [][TxNext]_vars

(* -------------------------------------------------------------- validator *)

\* Strings are Go strings of one-byte characters; s[i] of Go is Char(s, i + 1).
Char(s, i) == SubSeq(s, i, i)

LowerLetters == "abcdefghijklmnopqrstuvwxyz"

UpperLetters == "ABCDEFGHIJKLMNOPQRSTUVWXYZ"

Digits == "0123456789"

In(c, alphabet) == \E i \in 1..Len(alphabet) : Char(alphabet, i) = c

UpperChar(c) ==
    IF In(c, LowerLetters)
    THEN Char(UpperLetters, CHOOSE i \in 1..Len(LowerLetters) : Char(LowerLetters, i) = c)
    ELSE c

\* strings.ToUpper
RECURSIVE ToUpper(_)
ToUpper(s) == IF Len(s) = 0 THEN "" ELSE UpperChar(Char(s, 1)) \o ToUpper(Tail(s))

\* strings.Index: the 0-based position of the first occurrence, or -1.
Index(text, sub) ==
    LET hits == { i \in 0..(Len(text) - Len(sub)) : SubSeq(text, i + 1, i + Len(sub)) = sub }
    IN  IF hits = {} THEN -1 ELSE CHOOSE i \in hits : \A j \in hits : i <= j

\* strings.Contains
Contains(text, sub) == Index(text, sub) # -1

\* strings.HasPrefix
HasPrefix(text, prefix) ==
    Len(prefix) <= Len(text) /\ SubSeq(text, 1, Len(prefix)) = prefix

\* strings.TrimSpace (the inputs hold no white space other than the blank)
TrimSpace(s) ==
    LET solid == { i \in 1..Len(s) : Char(s, i) # " " } IN
    IF solid = {} THEN ""
    ELSE SubSeq(s, CHOOSE i \in solid : \A j \in solid : i <= j,
                   CHOOSE i \in solid : \A j \in solid : j <= i)

\* strings.Fields
RECURSIVE Fields(_)
Fields(s) ==
    LET t == TrimSpace(s)
        sp == Index(t, " ")
    IN  IF t = "" THEN <<>>
        ELSE IF sp = -1 THEN <<t>>
        ELSE <<SubSeq(t, 1, sp)>> \o Fields(SubSeq(t, sp + 1, Len(t)))

\* strings.Split(s, ",")
RECURSIVE Split(_, _)
Split(s, sep) ==
    LET i == Index(s, sep) IN
    IF i = -1 THEN <<s>>
    ELSE <<SubSeq(s, 1, i)>> \o Split(SubSeq(s, i + Len(sep) + 1, Len(s)), sep)

\* isWordChar: letter, digit or underscore.
isWordChar(c) == In(c, UpperLetters) \/ In(c, LowerLetters) \/ In(c, Digits) \/ c = "_"

\* [a-zA-Z_][a-zA-Z0-9_]*
Identifier(s) ==
    /\ Len(s) > 0
    /\ ~In(Char(s, 1), Digits)
    /\ \A i \in 1..Len(s) : isWordChar(Char(s, i))

\* identifier(\.identifier)?
Qualified(s) ==
    \/ Identifier(s)
    \/ \E i \in 1..Len(s) : /\ Char(s, i) = "."
                            /\ Identifier(SubSeq(s, 1, i - 1))
                            /\ Identifier(SubSeq(s, i + 1, Len(s)))

\* columnPattern.MatchString: ^identifier(\.identifier)?(\s+AS\s+identifier)?$
columnPattern(s) ==
    \/ Qualified(s)
    \/ \E i \in 1..Len(s), j \in 1..Len(s) :
          /\ i < j
          /\ Qualified(SubSeq(s, 1, i))
          /\ Identifier(SubSeq(s, j + 1, Len(s)))
          /\ LET mid == SubSeq(s, i + 1, j) IN
             /\ TrimSpace(mid) = "AS"
             /\ Char(mid, 1) = " "
             /\ Char(mid, Len(mid)) = " "

orderDirections == {"ASC", "DESC", "asc", "desc"}

dangerousKeywords ==
    << "DROP", "DELETE", "UPDATE", "INSERT", "TRUNCATE", "ALTER", "CREATE",
       "GRANT", "REVOKE", "EXEC", "EXECUTE", "UNION", "INTO", "OUTFILE",
       "LOAD_FILE", "DUMPFILE", "--", "/*", "*/", ";", "SLEEP", "BENCHMARK" >>

\* &ValidationError{Field, Reason}, and the plain error of validateColumnName.
ValidationError(field, reason) == [code |-> field, cause |-> reason]

\* The first error of a sequence of outcomes, nil when there is none.
FirstError(errs) ==
    LET bad == { i \in DOMAIN errs : errs[i] # NoErr } IN
    IF bad = {} THEN NoErr ELSE errs[CHOOSE i \in bad : \A j \in bad : i <= j]

isKeywordMatch_Substring(text, keyword) == Contains(text, keyword)

\* isKeywordMatch: the special tokens anywhere; a word keyword at its FIRST
\* occurrence, when that occurrence stands between word boundaries.
isKeywordMatch(text, keyword) ==
    IF keyword \in {"--", "/*", "*/", ";"} THEN Contains(text, keyword)
    ELSE LET idx == Index(text, keyword)
             endIdx == idx + Len(keyword)
         IN  /\ idx # -1
             /\ ~(idx > 0 /\ isWordChar(Char(text, idx)))
             /\ ~(endIdx < Len(text) /\ isWordChar(Char(text, endIdx + 1)))

checkDangerousKeywords(value, field) ==
    LET upperValue == ToUpper(value) IN
    IF \E k \in DOMAIN dangerousKeywords : isKeywordMatch(upperValue, dangerousKeywords[k])
    THEN ValidationError(field, "dangerous_keyword")
    ELSE NoErr

validateColumnName(column) ==
    LET col == TrimSpace(column) IN
    IF col = "" THEN ValidationError("column", "empty")
    ELSE IF ~columnPattern(col) THEN ValidationError("column", "invalid characters")
    ELSE NoErr

validateSingleOrderBy(orderBy) ==
    LET fields == Fields(orderBy) IN
    IF orderBy = "" THEN NoErr
    ELSE IF Len(fields) = 0 \/ Len(fields) > 2
         THEN ValidationError("OrderBy", "invalid_format")
    ELSE IF validateColumnName(fields[1]) # NoErr
         THEN ValidationError("OrderBy", "invalid_column")
    ELSE IF Len(fields) = 2 /\ fields[2] \notin orderDirections
         THEN ValidationError("OrderBy", "invalid_direction")
    ELSE NoErr

ValidateOrderBy(orderBy) ==
    IF TrimSpace(orderBy) = "" THEN NoErr
    ELSE IF checkDangerousKeywords(orderBy, "OrderBy") # NoErr
         THEN checkDangerousKeywords(orderBy, "OrderBy")
    ELSE LET parts == Split(orderBy, ",") IN
         FirstError([i \in DOMAIN parts |-> validateSingleOrderBy(TrimSpace(parts[i]))])

isAggregateFunction(sel) ==
    LET upperSel == ToUpper(TrimSpace(sel)) IN
    \E fn \in {"COUNT(", "SUM(", "AVG(", "MAX(", "MIN(", "GROUP_CONCAT("} :
        HasPrefix(upperSel, fn)

\* One round of the loop of ValidateSelect.
validateSelectItem(item) ==
    LET sel == TrimSpace(item) IN
    IF sel = "" THEN NoErr
    ELSE IF checkDangerousKeywords(sel, "Select") # NoErr
         THEN checkDangerousKeywords(sel, "Select")
    ELSE IF isAggregateFunction(sel) THEN NoErr
    ELSE IF validateColumnName(sel) # NoErr THEN ValidationError("Select", "invalid_column")
    ELSE NoErr

ValidateSelect(selects) ==
    FirstError([i \in DOMAIN selects |-> validateSelectItem(selects[i])])

validateJoinSyntax(join) ==
    LET upperJoin == ToUpper(join) IN
    IF ~Contains(upperJoin, "JOIN") THEN ValidationError("Joins", "missing_join_keyword")
    ELSE IF ~Contains(upperJoin, " ON ") THEN ValidationError("Joins", "missing_on_clause")
    ELSE IF ~\E jt \in {"INNER JOIN", "LEFT JOIN", "RIGHT JOIN", "FULL JOIN",
                         "CROSS JOIN", "JOIN"} : Contains(upperJoin, jt)
         THEN ValidationError("Joins", "invalid_join_type")
    ELSE NoErr

\* One round of the loop of ValidateJoins.
validateJoinItem(item) ==
    LET join == TrimSpace(item) IN
    IF join = "" THEN NoErr
    ELSE IF checkDangerousKeywords(join, "Joins") # NoErr
         THEN checkDangerousKeywords(join, "Joins")
    ELSE validateJoinSyntax(join)

ValidateJoins(joins) ==
    FirstError([i \in DOMAIN joins |-> validateJoinItem(joins[i])])

\* The option builders: each sets its field of the QueryOption to what it is given.
WithOrderBy(o, orderBy) == [o EXCEPT !.OrderBy = orderBy]

WithSelect(o, selects) == [o EXCEPT !.Select = selects]

WithJoins(o, joins) == [o EXCEPT !.Joins = joins]

(* The inputs. *)

OrderColumns ==
    { "id", "name", "created_at", "updated_by", "users.name", "update", "1id",
      "id@name", "COUNT(*)", "id--", "id;" }

OrderWords ==
    { "", " ASC", " DESC", " asc", " desc", " Asc", " dEsC", " RANDOM", " ASC DESC",
      " UNION SELECT" }

OrderByInputs ==
    { c \o d : c \in OrderColumns, d \in OrderWords }
        \cup { "", "  ", "status ASC, created_at DESC", "id, SLEEP(5)",
               "id; DROP TABLE users", "id ASC, name dEsC" }

SelectColumns ==
    { "id", "user_id", "created_at", "updated_by", "users.id", "users.update", "into",
      "sleep", "id@name", "user id", "id--", "id;", "COUNT(*)", "SUM(amount)",
      "group_concat(name)", "MAX(deleted_count) DELETE FROM users",
      "* FROM users--", "name; DROP TABLE users" }

SelectAliases == { "", " AS total", " as total" }

SelectInputs ==
    { <<c \o a>> : c \in SelectColumns, a \in SelectAliases }
        \cup { <<>>, <<"id", "name", "email">>, <<"users.id", "users.name">>,
               <<"id", "name; DROP TABLE users">>, <<"id", "", "name">> }

JoinKinds ==
    { "INNER JOIN", "LEFT JOIN", "RIGHT JOIN", "FULL JOIN", "CROSS JOIN", "JOIN",
      "left join", "" }

JoinTables == { " orders", " dropped_orders", " orders--" }

JoinConditions ==
    { "", " ON orders.user_id = users.id", " ON 1=1; DROP TABLE users--",
      " ON 1=1 UNION SELECT", " ON dropped_orders.id = users.id DROP TABLE users" }

JoinInputs ==
    { <<k \o t \o c>> : k \in JoinKinds, t \in JoinTables, c \in JoinConditions }
        \cup { <<>>, <<"LEFT JOIN orders ON orders.user_id = users.id",
                       "INNER JOIN products ON products.id = orders.product_id">>,
               <<"LEFT JOIN orders ON orders.user_id = users.id",
                 "LEFT JOIN orders; DROP TABLE users">> }

Validated(op, texts, err) == [Idle EXCEPT !.op = op, !.texts = texts, !.err = err]

Built(op, texts, o) == [Idle EXCEPT !.op = op, !.texts = texts, !.opt = o]

ValidateOrderByCall ==
    /\ last.op = "none"
    /\ \E orderBy \in OrderByInputs :
          last' = Validated("ValidateOrderBy", <<orderBy>>, ValidateOrderBy(orderBy))
    /\ UNCHANGED <<rows, createdBy, tx, tenantIgnored, lockVars, cacheVars>>

ValidateSelectCall ==
    /\ last.op = "none"
    /\ \E selects \in SelectInputs :
          last' = Validated("ValidateSelect", selects, ValidateSelect(selects))
    /\ UNCHANGED <<rows, createdBy, tx, tenantIgnored, lockVars, cacheVars>>

ValidateJoinsCall ==
    /\ last.op = "none"
    /\ \E joins \in JoinInputs :
          last' = Validated("ValidateJoins", joins, ValidateJoins(joins))
    /\ UNCHANGED <<rows, createdBy, tx, tenantIgnored, lockVars, cacheVars>>

\* ApplyOptions([]Option{WithOrderBy(orderBy)}) on a fresh QueryOption, and likewise
\* for the other two builders.
ApplyWithOrderBy ==
    /\ last.op = "none"
    /\ \E orderBy \in OrderByInputs :
          last' = Built("WithOrderBy", <<orderBy>>, WithOrderBy(QueryOption, orderBy))
    /\ UNCHANGED <<rows, createdBy, tx, tenantIgnored, lockVars, cacheVars>>

ApplyWithSelect ==
    /\ last.op = "none"
    /\ \E selects \in SelectInputs :
          last' = Built("WithSelect", selects, WithSelect(QueryOption, selects))
    /\ UNCHANGED <<rows, createdBy, tx, tenantIgnored, lockVars, cacheVars>>

ApplyWithJoins ==
    /\ last.op = "none"
    /\ \E joins \in JoinInputs :
          last' = Built("WithJoins", joins, WithJoins(QueryOption, joins))
    /\ UNCHANGED <<rows, createdBy, tx, tenantIgnored, lockVars, cacheVars>>

ValidatorNext ==
    \/ ValidateOrderByCall \/ ValidateSelectCall \/ ValidateJoinsCall
    \/ ApplyWithOrderBy \/ ApplyWithSelect \/ ApplyWithJoins
    \/ Return

ValidatorSpec == Init /\ [][ValidatorNext]_vars

(* ------------------------------------------------------- distributed lock *)

\* The most attempts an Acquire is given.
MaxRetryTimes == 2

\* maxLifetime := l.ttl * 100
MaxLifetimeFactor == 100

ErrLockFailed == "failed to acquire lock"

ErrUnlockFailed == "failed to release lock"

Canceled == "context canceled"

LockOption(ttl, retryTimes, autoExtend) ==
    [TTL |-> ttl, RetryTimes |-> retryTimes, AutoExtend |-> autoExtend]

\* The options the instances are used with; instance A also with AutoExtend.
LockOptions(l) ==
    { LockOption(LockTTL, n, a) :
        n \in 0..MaxRetryTimes, a \in IF l = "A" THEN BOOLEAN ELSE {FALSE} }

\* SET key value NX PX ttl
SetNX_Overwrite(key, value, ttl) == [ok |-> TRUE, key |-> [value |-> value, ttl |-> ttl]]

SetNX(key, value, ttl) ==
    IF key.value = Nil
    THEN [ok |-> TRUE, key |-> [value |-> value, ttl |-> ttl]]
    ELSE [ok |-> FALSE, key |-> key]

\* The script of Release: if GET == ARGV[1] then DEL else 0.
ReleaseScript_AnyValue(key, value) ==
    IF key.value # Nil THEN [n |-> 1, key |-> NoKey] ELSE [n |-> 0, key |-> key]

ReleaseScript(key, value) ==
    IF key.value = value THEN [n |-> 1, key |-> NoKey] ELSE [n |-> 0, key |-> key]

\* The script of Extend: if GET == ARGV[1] then PEXPIRE ARGV[2] else 0.
ExtendScript(key, value, ttl) ==
    IF key.value = value
    THEN [n |-> 1, key |-> [key EXCEPT !.ttl = ttl]]
    ELSE [n |-> 0, key |-> key]

\* stopAutoExtend: the renewal goroutine, if any, is cancelled.
stopAutoExtend(lock) ==
    [lock EXCEPT !.extending = FALSE, !.parentDone = FALSE, !.due = FALSE, !.lifetime = 0]

\* startAutoExtend: the old goroutine is stopped and a new one started on
\* context.WithoutCancel(parentCtx), with its deadline at maxLifetime.
startAutoExtend(lock) ==
    [stopAutoExtend(lock) EXCEPT !.extending = TRUE,
                                 !.lifetime = lock.ttl * MaxLifetimeFactor]

\* deadlineCtx.Done() of the renewal goroutine: only its own deadline (or
\* stopAutoExtend) ends it; the context given to Acquire was detached.
deadlineDone(lock) == lock.lifetime = 0

Returned(lock, op, err) == [lock EXCEPT !.pc = "done", !.op = op, !.err = err]

\* AcquireWithOption up to its loop.
AcquireWithOption ==
    /\ \E l \in LockNames :
          /\ locks[l].pc = "idle"
          /\ \E opt \in LockOptions(l) :
                locks' = [locks EXCEPT ![l] =
                            [@ EXCEPT !.ttl = IF opt.TTL > 0 THEN opt.TTL ELSE @,
                                      !.pc = "acquiring", !.i = 0,
                                      !.RetryTimes = opt.RetryTimes,
                                      !.AutoExtend = opt.AutoExtend,
                                      !.ctxDone = FALSE, !.op = "Acquire", !.err = "nil"]]
    /\ UNCHANGED <<redis, repoVars, cacheVars>>

\* One round of the loop: SetNX, or the end of the loop.
AcquireAttempt ==
    /\ \E l \in LockNames :
          LET lock == locks[l]
              r == SetNX(redis, lock.value, lock.ttl)
          IN  /\ lock.pc = "acquiring"
              /\ IF lock.i >= lock.RetryTimes
                 THEN /\ locks' = [locks EXCEPT ![l] = Returned(lock, "Acquire", ErrLockFailed)]
                      /\ redis' = redis
                 ELSE /\ redis' = r.key
                      /\ locks' = [locks EXCEPT ![l] =
                                    IF r.ok
                                    THEN Returned(IF lock.AutoExtend
                                                  THEN startAutoExtend(lock) ELSE lock,
                                                  "Acquire", "nil")
                                    ELSE [lock EXCEPT !.pc = "waiting"]]
    /\ UNCHANGED <<repoVars, cacheVars>>

\* The select after a failed attempt: the context is done, or RetryDelay has passed.
AcquireWait ==
    /\ \E l \in LockNames :
          /\ locks[l].pc = "waiting"
          /\ locks' = [locks EXCEPT ![l] =
                        IF @.ctxDone THEN Returned(@, "Acquire", Canceled)
                        ELSE [@ EXCEPT !.pc = "acquiring", !.i = @ + 1]]
    /\ UNCHANGED <<redis, repoVars, cacheVars>>

\* The caller cancels the context it gave to Acquire: during the call, or after
\* the call has started the renewal goroutine from it.
CancelContext ==
    /\ \E l \in LockNames :
          \/ /\ locks[l].pc = "waiting"
             /\ ~locks[l].ctxDone
             /\ locks' = [locks EXCEPT ![l].ctxDone = TRUE]
          \/ /\ locks[l].extending
             /\ ~locks[l].parentDone
             /\ locks' = [locks EXCEPT ![l].parentDone = TRUE]
    /\ UNCHANGED <<redis, repoVars, cacheVars>>

\* One ticker interval passes: the key comes closer to its expiry, the ticker of
\* every renewal goroutine fires and its deadline comes closer.
Tick ==
    /\ redis.value # Nil \/ \E l \in LockNames : locks[l].extending
    /\ redis' = IF redis.value = Nil THEN redis
                ELSE IF redis.ttl <= 1 THEN NoKey
                ELSE [redis EXCEPT !.ttl = @ - 1]
    /\ locks' = [l \in LockNames |->
                    IF locks[l].extending
                    THEN [locks[l] EXCEPT !.due = TRUE,
                                          !.lifetime = IF @ > 0 THEN @ - 1 ELSE 0]
                    ELSE locks[l]]
    /\ UNCHANGED <<repoVars, cacheVars>>

\* One round of the select of autoExtendLoop: the deadline context is done and the
\* goroutine returns, or the ticker has fired and tryExtend extends the key, or
\* finds it lost and the goroutine returns.
autoExtendLoop ==
    /\ \E l \in LockNames :
          LET lock == locks[l]
              r == ExtendScript(redis, lock.value, lock.ttl)
          IN  /\ lock.extending
              /\ \/ /\ deadlineDone(lock)
                    /\ locks' = [locks EXCEPT ![l] = stopAutoExtend(lock)]
                    /\ redis' = redis
                 \/ /\ lock.due
                    /\ redis' = r.key
                    /\ locks' = [locks EXCEPT ![l] =
                                  IF r.n = 0 THEN stopAutoExtend(lock)
                                  ELSE [lock EXCEPT !.due = FALSE]]
    /\ UNCHANGED <<repoVars, cacheVars>>

Release ==
    /\ \E l \in LockNames :
          LET r == ReleaseScript(redis, locks[l].value) IN
          /\ locks[l].pc = "idle"
          /\ redis' = r.key
          /\ locks' = [locks EXCEPT ![l] =
                        Returned(stopAutoExtend(@), "Release",
                                 IF r.n = 0 THEN ErrUnlockFailed ELSE "nil")]
    /\ UNCHANGED <<repoVars, cacheVars>>

Extend ==
    /\ \E l \in LockNames :
          LET r == ExtendScript(redis, locks[l].value, locks[l].ttl) IN
          /\ locks[l].pc = "idle"
          /\ redis' = r.key
          /\ locks' = [locks EXCEPT ![l] =
                        Returned(@, "Extend", IF r.n = 0 THEN ErrLockFailed ELSE "nil")]
    /\ UNCHANGED <<repoVars, cacheVars>>

\* Acquire, Release or Extend hands its error back to the caller: the locals of
\* the call are gone.
LockReturn ==
    /\ \E l \in LockNames :
          /\ locks[l].pc = "done"
          /\ locks' = [locks EXCEPT ![l] =
                        [@ EXCEPT !.pc = "idle", !.op = "none", !.err = "nil", !.i = 0,
                                  !.RetryTimes = 0, !.AutoExtend = FALSE,
                                  !.ctxDone = FALSE]]
    /\ UNCHANGED <<redis, repoVars, cacheVars>>

LockNext ==
    \/ AcquireWithOption \/ AcquireAttempt \/ AcquireWait \/ CancelContext
    \/ Tick \/ autoExtendLoop \/ Release \/ Extend \/ LockReturn

LockSpec == Init /\ [][LockNext]_vars

(* ------------------------------------------------------- descriptor cache *)

\* info, exists := tc.cache[t]
exists_Never(cache, t) == FALSE

exists(cache, t) == cache[t] # NoInfo

\* The n-th parse of t makes a new slice of the fields of t.
parseFields(t, n) == <<t, n>>

At(g, pc) == goroutines[g].pc = pc

Goto(g, pc) == [goroutines EXCEPT ![g].pc = pc]

\* A goroutine calls getFieldsInfo(t).
getFieldsInfo ==
    /\ \E g \in Goroutines, t \in Types :
          /\ At(g, "idle")
          /\ goroutines' = [goroutines EXCEPT ![g] = [pc |-> "get", t |-> t, info |-> NoInfo]]
    /\ UNCHANGED <<typeCache, repoVars, lockVars>>

\* get: tc.mu.RLock()
RLock ==
    /\ \E g \in Goroutines :
          /\ At(g, "get")
          /\ typeCache.writer = "none"
          /\ typeCache' = [typeCache EXCEPT !.readers = @ \cup {g}]
          /\ goroutines' = Goto(g, "rlocked")
    /\ UNCHANGED <<repoVars, lockVars>>

\* get: the lookup, RUnlock, and the test of exists in getFieldsInfo.
get ==
    /\ \E g \in Goroutines :
          LET t == goroutines[g].t IN
          /\ At(g, "rlocked")
          /\ typeCache' = [typeCache EXCEPT !.readers = @ \ {g}]
          /\ goroutines' = [goroutines EXCEPT ![g] =
                              IF exists(typeCache.cache, t)
                              THEN [@ EXCEPT !.pc = "return", !.info = typeCache.cache[t]]
                              ELSE [@ EXCEPT !.pc = "miss"]]
    /\ UNCHANGED <<repoVars, lockVars>>

\* getFieldsInfo: tc.mu.Lock()
Lock ==
    /\ \E g \in Goroutines :
          /\ At(g, "miss")
          /\ typeCache.writer = "none" /\ typeCache.readers = {}
          /\ typeCache' = [typeCache EXCEPT !.writer = g]
          /\ goroutines' = Goto(g, "locked")
    /\ UNCHANGED <<repoVars, lockVars>>

\* getFieldsInfo under the write lock: the second lookup returns what is cached;
\* otherwise the fields are parsed and stored. The deferred Unlock runs either way.
ParseAndStore ==
    /\ \E g \in Goroutines :
          LET t == goroutines[g].t
              n == typeCache.parsed[t] + 1
          IN  /\ At(g, "locked")
              /\ IF exists(typeCache.cache, t)
                 THEN /\ typeCache' = [typeCache EXCEPT !.writer = "none"]
                      /\ goroutines' = [goroutines EXCEPT ![g].pc = "return",
                                                          ![g].info = typeCache.cache[t]]
                 ELSE /\ typeCache' = [typeCache EXCEPT !.writer = "none",
                                                        !.parsed[t] = n,
                                                        !.cache[t] = parseFields(t, n)]
                      /\ goroutines' = [goroutines EXCEPT ![g].pc = "return",
                                                          ![g].info = parseFields(t, n)]
    /\ UNCHANGED <<repoVars, lockVars>>

\* The caller has its descriptor.
CacheReturn ==
    /\ \E g \in Goroutines :
          /\ At(g, "return")
          /\ goroutines' = [goroutines EXCEPT ![g] = [pc |-> "idle", t |-> "t1", info |-> NoInfo]]
    /\ UNCHANGED <<typeCache, repoVars, lockVars>>

CacheNext == getFieldsInfo \/ RLock \/ get \/ Lock \/ ParseAndStore \/ CacheReturn

CacheSpec == Init /\ [][CacheNext]_vars
(* ----------------------------------------------------------------- claims *)

ReadOps == {"FindByID", "FindByIDs", "FindOne", "FindByQuery", "FindPage"}

ScopedAggregateOps == {"Sum", "Avg", "Max", "Min", "CountByGroup"}

ConditionOps ==
    {"SumWithCondition", "AvgWithCondition", "MaxWithCondition", "MinWithCondition"}

AggregateOps == {"Count", "Exists"} \cup ScopedAggregateOps \cup ConditionOps

\* The rows the last call wrote by primary key (Create: one; the batches: several).
Written == { r \in rows : r.id = last.id \/ r.id \in last.ids }

\* Row r is visible to the identity of ctx: same tenant and, for a non-admin, same dept.
Visible(ctx, r) ==
    /\ ctx.ok
    /\ r.tenant_id = ctx.TenantID
    /\ ctx.IsAdmin \/ (ctx.DeptID # NoDept /\ r.dept_id = ctx.DeptID)

\* Row r satisfies the caller's fragment.
QueryHolds(r, query) == query.q = "amount = ?" => r.amount = query.n

\* C1: a row created under an identity of tenant A is never returned by FindByID,
\* FindByIDs, FindOne, FindByQuery or FindPage under an identity of another tenant B,
\* and FindByID(B, row.id) answers NotFound.
C1_CrossTenantReadIsolation ==
    (last.op \in ReadOps /\ last.ctx.ok) =>
        /\ \A r \in last.found :
              createdBy[r.id] \in Tenants => createdBy[r.id] = last.ctx.TenantID
        /\ (/\ last.op = "FindByID"
            /\ Has(rows, last.id)
            /\ createdBy[last.id] \in Tenants \ {last.ctx.TenantID})
              => last.err.code = "NotFound"

\* C2: every row persisted by a successful Create, CreateBatch or UpdateBatch (the
\* upsert) under identity I is stored with tenant_id = I.TenantID, whatever the
\* entity carried.
C2_TenantAutoFill ==
    (/\ last.op \in {"Create", "CreateBatch", "UpdateBatch"}
     /\ last.err = NoErr
     /\ last.ctx.ok)
        => \A r \in Written : r.tenant_id = last.ctx.TenantID

C3Ops ==
    {"Create", "CreateBatch", "UpdateBatch", "Update", "UpdateByID", "Delete",
     "DeleteBatch", "HardDelete", "FindByID", "FindByIDs", "FindOne", "FindByQuery",
     "Count", "Exists", "FindPage", "Sum", "Avg", "Max", "Min"}

\* C3: every operation called without a TenantContext in scope, on arguments that
\* pass the argument checks (no nil entity, no empty list or map), returns
\* Unauthenticated and leaves the stored rows unchanged.
C3_FailClosedWithoutIdentity ==
    [][(last'.op \in C3Ops /\ ~last'.ctx.ok /\ last'.err # New("InvalidArgument"))
          => (Is(last'.err, "Unauthenticated") /\ rows' = rows)]_vars

\* C4: Update, UpdateByID and UpdateBatch never change the tenant_id or dept_id of
\* a stored row.
C4_TenantDeptImmutable ==
    [][last'.op \in {"Update", "UpdateByID", "UpdateBatch"}
          => \A r \in rows : \A x \in rows' :
                x.id = r.id => (x.tenant_id = r.tenant_id /\ x.dept_id = r.dept_id)]_vars

\* C5: Update, UpdateByID, Delete or HardDelete by identity B on the key of a row
\* of another tenant returns NotFound and leaves every row as it was.
C5_CrossTenantMutationNotFound ==
    [][(/\ last'.op \in {"Update", "UpdateByID", "Delete", "HardDelete"}
        /\ last'.ctx.ok
        /\ Has(rows, last'.id)
        /\ RowOf(rows, last'.id).tenant_id # last'.ctx.TenantID)
          => (last'.err.code = "NotFound" /\ rows' = rows)]_vars

\* C6: UpdateBatch (the upsert) under identity B modifies no column of a row that
\* belongs to another tenant, also when an entity carries that row's primary key.
C6_UpsertConfinedToTenant ==
    [][(last'.op = "UpdateBatch" /\ last'.ctx.ok)
          => \A r \in rows : r.tenant_id # last'.ctx.TenantID => r \in rows']_vars

\* C7: for a non-admin identity with dept D, the rows it creates are stored with
\* dept_id = D, its reads and aggregates cover only rows of its tenant and dept D,
\* and FindByID of a row of its tenant in another dept answers NotFound.
C7_DeptIsolation ==
    (last.ctx.ok /\ ~last.ctx.IsAdmin /\ last.ctx.DeptID # NoDept) =>
        /\ (last.op \in {"Create", "CreateBatch"} /\ last.err = NoErr)
              => \A r \in Written : r.dept_id = last.ctx.DeptID
        /\ last.op \in ReadOps \cup AggregateOps
              => \A r \in last.found : Visible(last.ctx, r)
        /\ (/\ last.op = "FindByID"
            /\ Has(rows, last.id)
            /\ RowOf(rows, last.id).tenant_id = last.ctx.TenantID
            /\ RowOf(rows, last.id).dept_id # last.ctx.DeptID)
              => last.err.code = "NotFound"

\* C8: every operation called by a non-admin identity whose DeptID is nil, on
\* arguments that pass the argument checks, returns Unauthenticated, returns no row
\* and writes no row.
C8_NonAdminWithoutDeptFailsClosed ==
    [][(/\ last'.op # "none"
        /\ last'.ctx.ok
        /\ ~last'.ctx.IsAdmin
        /\ last'.ctx.DeptID = NoDept
        /\ last'.err # New("InvalidArgument"))
          => (/\ Is(last'.err, "Unauthenticated")
              /\ last'.found = {}
              /\ rows' = rows)]_vars

\* C9: for an admin identity of tenant T, with or without a dept, Count, Sum, Avg,
\* Max, Min and FindByQuery cover exactly the rows of T that satisfy the fragment,
\* in every department, and FindByID, FindByIDs, FindOne and FindPage return rows
\* of T only: the result is a function of T's rows and not of the admin's dept.
C9_AdminVisibility ==
    (last.ctx.ok /\ last.ctx.IsAdmin /\ last.err = NoErr) =>
        /\ last.op \in {"Count", "Sum", "Avg", "Max", "Min", "FindByQuery"}
              => last.found = { r \in rows : /\ r.tenant_id = last.ctx.TenantID
                                             /\ QueryHolds(r, last.query) }
        /\ last.op \in {"FindByID", "FindByIDs", "FindOne", "FindPage"}
              => \A r \in last.found : r.tenant_id = last.ctx.TenantID

\* C10: Count, Exists, Sum, Avg, Max, Min, CountByGroup and the WithCondition
\* variants compute their value over exactly the rows visible to the identity that
\* satisfy the fragment; no row of another tenant contributes.
C10_AggregatesScoped ==
    (last.op \in AggregateOps /\ last.ctx.ok /\ last.err = NoErr) =>
        last.found = { r \in rows : Visible(last.ctx, r) /\ QueryHolds(r, last.query) }
FragmentOps == {"FindOne", "FindByQuery", "Count", "Exists"} \cup ScopedAggregateOps

\* C11: the rows FindOne, FindByQuery, Count, Exists or an aggregate returns or
\* aggregates for a caller's fragment are rows visible to the caller's identity that
\* satisfy the fragment: the fragment is ANDed with the scope and only narrows it.
C11_FragmentOnlyNarrows ==
    (last.op \in FragmentOps /\ last.ctx.ok /\ last.err = NoErr) =>
        \A r \in last.found : Visible(last.ctx, r) /\ QueryHolds(r, last.query)

\* C13: Update with an entity whose field holds the zero value of its type (amount 0,
\* dept_id nil) leaves the stored value of that field as it was.
C13_UpdateNonDestructive ==
    [][(last'.op = "Update" /\ last'.err = NoErr /\ Has(rows, last'.id))
          => LET old == RowOf(rows, last'.id)
                 new == RowOf(rows', last'.id)
             IN  /\ Has(rows', last'.id)
                 /\ last'.model.amount = 0 => new.amount = old.amount
                 /\ last'.model.dept_id = NoDept => new.dept_id = old.dept_id]_vars

\* The keys of an update map that survive filtering, as the claim has it: known
\* columns by column or field name, no primary key, no tenant_id, no dept_id.
KeptKeys(keys) ==
    { DBName(k) : k \in { k \in keys : /\ k \in FieldsByDBName \cup FieldsByName
                                       /\ DBName(k) \notin {"id", "tenant_id", "dept_id"} } }

\* C14: a successful UpdateByID writes only the columns of the kept keys: tenant_id
\* and dept_id keep their stored values whatever the map holds, and amount changes
\* only when the map has a key for it.
C14_UpdateByIDWritesFilteredKeys ==
    [][(last'.op = "UpdateByID" /\ last'.err = NoErr)
          => \A r \in rows : \A x \in rows' :
                x.id = r.id =>
                    /\ x.tenant_id = r.tenant_id
                    /\ x.dept_id = r.dept_id
                    /\ "amount" \notin KeptKeys(last'.keys) => x.amount = r.amount]_vars

\* C15: UpdateByID with an empty map, or with a map whose keys are all dropped by the
\* filtering (only tenant_id, dept_id, the primary key or unknown columns), returns
\* InvalidArgument and modifies no row.
C15_UpdateByIDEmptyEffectiveUpdate ==
    [][(last'.op = "UpdateByID" /\ KeptKeys(last'.keys) = {})
          => (last'.err = New("InvalidArgument") /\ rows' = rows)]_vars
PageOps == {"FindPage", "FindPageByModel"}

\* C20 (as amended): the page operations report page max(page, 1) and a pageSize in
\* 1..1000: the argument itself when it is in that range, 1000 when it is above, and
\* the default page size 10 (not 1) when it is below 1.
C20_PageClamping ==
    last.op \in PageOps =>
        /\ last.page >= 1
        /\ last.argPage >= 1 => last.page = last.argPage
        /\ last.argPage < 1 => last.page = 1
        /\ last.pageSize \in 1..MaxPageSize
        /\ last.argPageSize \in 1..MaxPageSize => last.pageSize = last.argPageSize
        /\ last.argPageSize > MaxPageSize => last.pageSize = MaxPageSize
        /\ last.argPageSize < 1 => last.pageSize = DefaultPageSize

\* C20 witness: a page operation was called with a pageSize below 1 and a page below 1.
C20_Witness ==
    /\ last.op \in PageOps
    /\ last.argPageSize < 1
    /\ last.argPage < 1
    /\ last.pageSize = DefaultPageSize

\* C20 as the claim has it: a pageSize below 1 becomes 1.
C20_PageClampingOriginal ==
    last.op \in PageOps =>
        /\ last.argPage >= 1 => last.page = last.argPage
        /\ last.argPage < 1 => last.page = 1
        /\ last.argPageSize \in 1..MaxPageSize => last.pageSize = last.argPageSize
        /\ last.argPageSize > MaxPageSize => last.pageSize = MaxPageSize
        /\ last.argPageSize < 1 => last.pageSize = 1

C12Ops == {"Create", "Count", "Sum", "Avg", "Max", "Min"} \cup ReadOps

\* C12: on an entity type whose TenantIgnored is true, Create, the Find operations,
\* Count, Sum, Avg, Max and Min never answer Unauthenticated, with or without an
\* identity in scope; the reads and aggregates cover every stored row that satisfies
\* the fragment, whoever calls; and Create stores the entity with the tenant_id and
\* dept_id it was given.
C12_TenantIgnoredBypass ==
    (tenantIgnored /\ last.op \in C12Ops) =>
        /\ ~Is(last.err, "Unauthenticated")
        /\ (/\ last.op \in {"FindByQuery", "Count", "Sum", "Avg", "Max", "Min"}
            /\ last.err # New("InvalidArgument"))
              => /\ last.err = NoErr
                 /\ last.found = { r \in rows : QueryHolds(r, last.query) }
        /\ last.op = "FindByID" => last.found = { r \in rows : r.id = last.id }
        /\ last.op = "FindByIDs" => last.found = { r \in rows : r.id \in last.ids }
        /\ (last.op = "Create" /\ last.err = NoErr) => last.model \in rows

\* C12 witness: Sum over a tenant-ignored table, called with no identity in scope,
\* succeeded over rows of two tenants.
C12_Witness ==
    /\ tenantIgnored
    /\ last.op = "Sum"
    /\ ~last.ctx.ok
    /\ last.err = NoErr
    /\ \E r1, r2 \in last.found : r1.tenant_id # r2.tenant_id

\* C16: Execute is atomic.  When the outermost Execute block ends, the stored rows
\* are, after a nil return of fn, the rows at BEGIN with every write made through
\* the child scope applied, and, after an error or a panic of fn, exactly the rows
\* at BEGIN: no write made through the child scope is persisted.
C16_ExecuteAtomic ==
    [][ (Len(tx) = 1 /\ last'.op = "Execute") =>
            rows' = IF last'.err = NoErr THEN tx[1].scoped ELSE tx[1].begin ]_vars

\* The calls fn makes through the child scope.
ScopeOps == {"Create", "Delete", "FindByID"}

\* C17: a repository call made with a scope that carries a transaction handle runs
\* on that handle and never on the base handle; a FindByID through the child scope
\* sees the writes made earlier through it, and a FindByID made with a scope
\* without the handle while the block is open sees the rows as they were at BEGIN.
C17_CallsRunOnScopeHandle ==
    /\ (last.op \in ScopeOps /\ last.ctx.tx # BaseHandle) => last.handle = last.ctx.tx
    /\ (last.op = "FindByID" /\ last.ctx.tx # BaseHandle)
          => last.found = { r \in tx[last.ctx.tx].scoped : r.id = last.id }
    /\ (last.op = "FindByID" /\ last.ctx.tx = BaseHandle /\ InBlock)
          => last.found = { r \in tx[1].begin : r.id = last.id }

\* C18: an Execute called with a scope that already carries a transaction handle
\* runs fn in that transaction: its transaction is opened on the handle of the
\* scope (a savepoint of it), never as an independent transaction on the base
\* handle.
C18_NestedExecuteJoins ==
    \A i \in DOMAIN tx :
        (tx[i].op = "Execute" /\ tx[i].ctx.tx # BaseHandle) => tx[i].parent = tx[i].ctx.tx

\* C19: the Total and the slice a page listing returns are computed from one
\* snapshot of the rows, whatever other requests insert or delete between the
\* count and the slice query.
C19_PageCountAndSliceAgree ==
    (last.op = "FindPage" /\ last.err = NoErr) =>
        \E snapshot \in SUBSET Models :
            /\ last.num = Cardinality(snapshot)
            /\ last.found = PageOf(snapshot, last.page, last.pageSize)

\* C21: Delete and DeleteBatch run under the caller's scope.  Delete removes the
\* row of the given id when the caller can see it, and answers NotFound exactly
\* when it removed nothing; DeleteBatch with non-empty ids removes the visible rows
\* of those ids and answers no error even when it removed nothing; neither removes
\* a row the caller cannot see.  (Stated for a caller with a complete identity.)
C21_DeleteOutcome ==
    [][ (last'.ctx.ok /\ (last'.ctx.IsAdmin \/ last'.ctx.DeptID # NoDept)) =>
        /\ last'.op = "Delete" =>
              /\ rows' = { r \in rows : ~(r.id = last'.id /\ Visible(last'.ctx, r)) }
              /\ (last'.err = New("NotFound")) <=> (rows' = rows)
              /\ last'.err \in {NoErr, New("NotFound")}
        /\ (last'.op = "DeleteBatch" /\ last'.ids # {}) =>
              /\ rows' = { r \in rows : ~(r.id \in last'.ids /\ Visible(last'.ctx, r)) }
              /\ last'.err = NoErr ]_vars

ValidatorOps == {"ValidateOrderBy", "ValidateSelect", "ValidateJoins"}

\* Keyword kw stands in text as a word of its own at (0-based) position i.
StandaloneAt(text, kw, i) ==
    /\ SubSeq(text, i + 1, i + Len(kw)) = kw
    /\ i > 0 => ~isWordChar(Char(text, i))
    /\ i + Len(kw) < Len(text) => ~isWordChar(Char(text, i + Len(kw) + 1))

\* The string holds a blacklisted word as a word of its own, anywhere, in any
\* letter case, or one of the tokens --, /*, */ and ; anywhere.
Blacklisted(value) ==
    LET text == ToUpper(value) IN
    \E k \in DOMAIN dangerousKeywords :
        LET kw == dangerousKeywords[k] IN
        IF kw \in {"--", "/*", "*/", ";"} THEN Contains(text, kw)
        ELSE \E i \in 0..(Len(text) - Len(kw)) : StandaloneAt(text, kw, i)

\* C22: ValidateOrderBy, ValidateSelect and ValidateJoins return an error for every
\* input in which a blacklisted word occurs anywhere as a standalone word, or in
\* which --, /*, */ or ; occurs, whatever precedes it in the string.
C22_BlacklistedRejected ==
    (last.op \in ValidatorOps /\ \E i \in DOMAIN last.texts : Blacklisted(last.texts[i]))
        => last.err # NoErr

\* table.column of two identifiers.
TableColumn(s) ==
    \E i \in 1..Len(s) : /\ Char(s, i) = "."
                         /\ Identifier(SubSeq(s, 1, i - 1))
                         /\ Identifier(SubSeq(s, i + 1, Len(s)))

\* A single column name or table.column.
ColumnFragment(s) == Identifier(s) \/ TableColumn(s)

\* A column fragment followed by " AS alias".
AliasedFragment(s) ==
    \E i \in 1..Len(s) :
        /\ ColumnFragment(SubSeq(s, 1, i))
        /\ HasPrefix(SubSeq(s, i + 1, Len(s)), " AS ")
        /\ Identifier(SubSeq(s, i + 5, Len(s)))

\* An aggregate projection FN(...).
AggregateFragment(s) ==
    \E fn \in {"COUNT", "SUM", "AVG", "MAX", "MIN", "GROUP_CONCAT"} :
        HasPrefix(ToUpper(s), fn \o "(") /\ Contains(s, ")")

\* A JOIN clause with a JOIN kind and an ON clause.
JoinFragment(s) == Contains(ToUpper(s), "JOIN") /\ Contains(ToUpper(s), " ON ")

\* The call was given one valid fragment of the kind its validator is for.
ValidFragmentGiven ==
    /\ Len(last.texts) = 1
    /\ \/ last.op \in {"ValidateOrderBy", "ValidateSelect"} /\ ColumnFragment(last.texts[1])
       \/ last.op = "ValidateSelect" /\ AliasedFragment(last.texts[1])
       \/ last.op = "ValidateSelect" /\ AggregateFragment(last.texts[1])
       \/ last.op = "ValidateJoins" /\ JoinFragment(last.texts[1])

OrderItemGiven ==
    /\ last.op = "ValidateOrderBy"
    /\ Len(last.texts) = 1
    /\ ~Contains(last.texts[1], ",")
    /\ Len(Fields(last.texts[1])) = 2
    /\ ColumnFragment(Fields(last.texts[1])[1])
    /\ ~Blacklisted(last.texts[1])

\* C24: ValidateOrderBy accepts an item "<column> <dir>" with a valid column exactly
\* when <dir> is ASC or DESC in any letter case (asc, Asc, DESC, dEsC), and rejects
\* every other direction word.
C24_DirectionCaseInsensitive ==
    OrderItemGiven =>
        (last.err = NoErr <=> ToUpper(Fields(last.texts[1])[2]) \in {"ASC", "DESC"})

\* C25: after WithOrderBy, WithSelect or WithJoins on a fresh QueryOption the field
\* holds the given value only if the validator accepts it, and is empty when the
\* validator rejects it (for WithSelect and WithJoins: rejects any one element).
C25_OptionBuildersGate ==
    /\ last.op = "WithOrderBy" =>
          last.opt.OrderBy = IF ValidateOrderBy(last.texts[1]) = NoErr
                             THEN last.texts[1] ELSE ""
    /\ last.op = "WithSelect" =>
          last.opt.Select = IF ValidateSelect(last.texts) = NoErr THEN last.texts ELSE <<>>
    /\ last.op = "WithJoins" =>
          last.opt.Joins = IF ValidateJoins(last.texts) = NoErr THEN last.texts ELSE <<>>

(* ------------------------------------------------------------------ C26 *)

\* The instances holding the key: the value under it is theirs (acquired, not
\* released, not expired).
Holders == { l \in LockNames : redis.value = locks[l].value }

\* The step in which the Acquire of l returns.
AcquireReturns(l) == locks[l].pc \in {"acquiring", "waiting"} /\ locks'[l].pc = "done"

AcquireOutcome(l) ==
    /\ Cardinality(Holders) <= 1
    /\ AcquireReturns(l) =>
          /\ locks'[l].err = "nil" =>
                /\ redis.value = Nil
                /\ redis' = [value |-> locks[l].value, ttl |-> locks[l].ttl]
          /\ locks'[l].err = ErrLockFailed =>
                /\ locks[l].i = locks[l].RetryTimes
                /\ redis' = redis
          /\ locks'[l].err = Canceled =>
                /\ locks[l].pc = "waiting" /\ locks[l].ctxDone
                /\ redis' = redis
    /\ (/\ locks[l].pc = "acquiring" /\ locks'[l].pc # "acquiring"
        /\ locks[l].i < locks[l].RetryTimes) =>
          IF redis.value = Nil
          THEN locks'[l].pc = "done" /\ locks'[l].err = "nil"
          ELSE locks'[l].pc = "waiting" /\ redis' = redis

GoroutineExtends(l) ==
    /\ locks[l].extending /\ locks[l].due
    /\ locks'[l] = [locks[l] EXCEPT !.due = FALSE]
    /\ redis.value = locks[l].value
    /\ redis' = [redis EXCEPT !.ttl = locks[l].ttl]

\* C27: once the context given to Acquire is cancelled, the renewal goroutine of
\* a lock acquired with AutoExtend extends the key no more.
C27_ParentCancelStopsExtension ==
    [][\A l \in LockNames : locks[l].parentDone => ~GoroutineExtends(l)]_vars

(* ------------------------------------------------------------------ C29 *)

\* The step in which Release, or Extend, of l returns.
Returns(l, op) == locks[l].pc = "idle" /\ locks'[l].pc = "done" /\ locks'[l].op = op

\* C29: Release deletes the key, and Extend sets its expiry, only when the value
\* under the key is the value of the instance; otherwise Release returns
\* ErrUnlockFailed, Extend returns ErrLockFailed, and the key and its expiry stay
\* as they are.
C29_OnlyHolderReleasesOrExtends ==
    [][\A l \in LockNames :
          /\ Returns(l, "Release") =>
                IF redis.value = locks[l].value
                THEN redis' = NoKey /\ locks'[l].err = "nil"
                ELSE redis' = redis /\ locks'[l].err = ErrUnlockFailed
          /\ Returns(l, "Extend") =>
                IF redis.value = locks[l].value
                THEN redis' = [redis EXCEPT !.ttl = locks[l].ttl] /\ locks'[l].err = "nil"
                ELSE redis' = redis /\ locks'[l].err = ErrLockFailed]_vars

\* A's key has expired and B has acquired it; the Release of A has failed and the
\* key is still B's.
C29_Witness ==
    /\ redis.value = locks["B"].value
    /\ redis.ttl > 0
    /\ locks["A"].pc = "done" /\ locks["A"].op = "Release"
    /\ locks["A"].err = ErrUnlockFailed

(* ------------------------------------------------------------------ C28 *)

\* C28: whatever the interleaving of the goroutines making the first lookup of a
\* type, the type is parsed at most once, the stored descriptor is that one
\* parse (so it is never replaced), and every caller receives the stored one.
C28_ParsedOnce ==
    /\ \A t \in Types :
          /\ typeCache.parsed[t] <= 1
          /\ typeCache.cache[t] \in {NoInfo, parseFields(t, 1)}
          /\ typeCache.parsed[t] = 1 => typeCache.cache[t] = parseFields(t, 1)
    /\ \A g \in Goroutines :
          At(g, "return") =>
             /\ goroutines[g].info # NoInfo
             /\ goroutines[g].info = typeCache.cache[goroutines[g].t]

\* Two goroutines missed the same type on their first lookup; one has parsed it
\* and has its descriptor, the other now holds the write lock and finds it stored.
C28_Witness ==
    \E g, h \in Goroutines :
       /\ g # h
       /\ goroutines[g].t = goroutines[h].t
       /\ At(g, "return") /\ goroutines[g].info = parseFields(goroutines[g].t, 1)
       /\ At(h, "locked") /\ typeCache.writer = h
       /\ typeCache.parsed[goroutines[h].t] = 1

(* ------------------------------------------------------------------ C30 *)

\* The row an admin identity's Create is to store: the identity's tenant; the
\* entity's own dept_id when the identity has none, the identity's otherwise.
AdminStored(ctx, model) ==
    [model EXCEPT !.tenant_id = ctx.TenantID,
                  !.dept_id = IF ctx.DeptID = NoDept THEN @ ELSE ctx.DeptID]

\* C30: a Create by an admin identity of an entity with a fresh key succeeds and
\* stores the entity with tenant_id set to the identity's tenant and with dept_id
\* as the caller supplied it when the identity has no department, and the
\* identity's department D when it has one.
C30_AdminCreateKeepsDept ==
    [][(/\ last'.op = "Create"
        /\ last'.ctx.ok /\ last'.ctx.IsAdmin
        /\ last'.model # NilModel
        /\ ~Has(rows, last'.model.id))
          => /\ last'.err = NoErr
             /\ rows' = rows \cup {AdminStored(last'.ctx, last'.model)}]_vars
====
